---- MODULE Spec2Model ----
(***************************************************************************)
(* TradeForge: the position / P&L replay of TradingCalculator.calculate_pnl,*)
(* the metrics and the risk figures computed from it (src/utils.py), and    *)
(* the trades table of DatabaseManager (src/data.py) and the buttons of the *)
(* Streamlit app (src/app.py).  Each has its own specification: Spec,       *)
(* SpecMetrics, SpecRisk, SpecLedger, SpecApp.                              *)
(*                                                                          *)
(* Numbers.  The code computes in floating point; the model computes in     *)
(* exact rationals <<numerator, denominator>> (denominator > 0, lowest      *)
(* terms), so a division such as total_cost / position is a real division   *)
(* and not an integer one.                                                  *)
(*                                                                          *)
(* Sorting.  DataFrame.sort_values('date') is called with pandas' default   *)
(* kind='quicksort', which pandas documents as not stable: the result is    *)
(* ascending in 'date', and the relative order of rows with equal dates is  *)
(* whatever the build's sort produces for that key array.  The model draws  *)
(* that outcome once (argsort) from all ascending orders; being a function  *)
(* of the key array, it is the same whenever the same key array is sorted.  *)
(***************************************************************************)
EXTENDS Integers, Sequences, FiniteSets, TLC

\* ---------------------------------------------------------------- bounds
MaxTrades == 3
MaxDate == 2

Tickers == {"AAPL", "NVDA"}
TradeTypes == {"Buy", "Sell"}

\* <<price, quantity, fees>> of a row: the form's price > 0, quantity > 0 and
\* fees >= 0.  The three make a sell close a part of, all of, or more than the
\* open position, at a gain or at a loss, with and without fees.
Lots == {<<1, 2, 1>>, <<3, 1, 0>>, <<2, 1, 1>>}

\* ------------------------------------------------------- exact rationals
Abs(x) == IF x < 0 THEN -x ELSE x

RECURSIVE GCD(_, _)
GCD(a, b) == IF b = 0 THEN a ELSE GCD(b, a % b)

\* the rational n/d in lowest terms with a positive denominator (d # 0)
RNorm(n, d) ==
    LET g == GCD(Abs(n), Abs(d))
        s == IF d < 0 THEN -1 ELSE 1
    IN  <<(s * n) \div g, (s * d) \div g>>

R(x) == <<x, 1>>
RZero == R(0)
RAdd(a, b) == RNorm(a[1] * b[2] + b[1] * a[2], a[2] * b[2])
RSub(a, b) == RNorm(a[1] * b[2] - b[1] * a[2], a[2] * b[2])
RMul(a, b) == RNorm(a[1] * b[1], a[2] * b[2])
\* a / b; a zero divisor is reported by DivisionByZero below, the value is then unused
RDiv(a, b) == IF b[1] = 0 THEN RZero ELSE RNorm(a[1] * b[2], a[2] * b[1])
RGt(a, b) == a[1] * b[2] > b[1] * a[2]
RIsZero(a) == a[1] = 0

\* ------------------------------------------------------------ trade rows
\* One row of the trades DataFrame, as DatabaseManager.get_trades builds it.
\* total_cost is what add_trade / update_trade store: price * quantity + fees.
MkRow(i, d, t, ty, p, q, f) ==
    [id |-> i, date |-> d, ticker |-> t, trade_type |-> ty,
     price |-> R(p), quantity |-> R(q), fees |-> R(f),
     total_cost |-> R(p * q + f),
     realized_pnl |-> RZero, unrealized_pnl |-> RZero]

Cores == (1..MaxDate) \X Tickers \X TradeTypes \X Lots

\* a frame of n rows with ids 1..n, from one core per row
Frame(n, c) == [i \in 1..n |-> MkRow(i, c[i][1], c[i][2], c[i][3], c[i][4][1], c[i][4][2], c[i][4][3])]

\* ------------------------------------------------------------- variables
VARIABLES
    trades_df,      \* the caller's DataFrame (argument of calculate_pnl)
    df,             \* the working copy the call writes to and returns
    pc,             \* "call" | "tickers" | "trades" | "done" | "compared"
    tickers,        \* tickers of df['ticker'].unique() still to replay
    ticker_trades,  \* row labels of the current ticker still to iterate, sorted
    position,       \* running open quantity of the current ticker
    total_cost,     \* running open cost basis of the current ticker
    realized_pnl,   \* running realized total of the current ticker
    argsort,        \* the build's sort outcome for each key array it sorts
    steps,          \* log of the loop iterations done so far
    raised,         \* TRUE once an iteration divided by zero
    again,          \* a further call of calculate_pnl and its result
    metrics_in,     \* the caller's frame handed to calculate_metrics: [columns, rows]
    metrics_after,  \* the same frame object once calculate_metrics has returned
    metrics,        \* the dict calculate_metrics returned
    stats,          \* the dict get_trade_stats returned for the same rows
    risk_in,        \* the arguments of calculate_risk_metrics
    risk_out,       \* what calculate_risk_metrics returned, or that it raised
    ledger,         \* the rows of the trades table of one DatabaseManager
    last_op,        \* the last DatabaseManager call: its arguments and outcome
    files,          \* the database files of the app's directory: name -> trades
    session,        \* st.session_state of the browser session, and its last action
    backup          \* the backup zip the user downloaded last

\* the variables of the calls other than calculate_pnl
metrics_vars == <<metrics_in, metrics_after, metrics, stats>>
risk_vars == <<risk_in, risk_out>>
ledger_vars == <<ledger, last_op>>
app_vars == <<files, session, backup>>

vars == <<trades_df, df, pc, tickers, ticker_trades, position, total_cost,
          realized_pnl, argsort, steps, raised, again,
          metrics_in, metrics_after, metrics, stats, risk_in, risk_out, ledger,
          last_op, files, session, backup>>

\* --------------------------------------------------- DataFrame operators
Labels(frame) == [i \in 1..Len(frame) |-> i]

\* df['ticker'].unique(): the tickers in order of first appearance
RECURSIVE UniqueFrom(_, _, _)
UniqueFrom(frame, i, acc) ==
    IF i > Len(frame) THEN acc
    ELSE UniqueFrom(frame, i + 1,
            IF \E k \in 1..Len(acc) : acc[k] = frame[i].ticker
            THEN acc ELSE Append(acc, frame[i].ticker))

unique(frame) == UniqueFrom(frame, 1, <<>>)

\* df[df['ticker'] == ticker]: the labels of the ticker's rows, in frame order
TickerRows(frame, t) == SelectSeq(Labels(frame), LAMBDA i : frame[i].ticker = t)

\* the 'date' column of those rows: the key array handed to the sort
DateKeys(frame, t) == [k \in 1..Len(TickerRows(frame, t)) |-> frame[TickerRows(frame, t)[k]].date]

Perms(n) == {p \in [1..n -> 1..n] : \A i, j \in 1..n : i # j => p[i] # p[j]}

Ascending(keys, p) == \A i, j \in 1..Len(keys) : i < j => keys[p[i]] <= keys[p[j]]

\* every result sort_values(kind='quicksort') may give for a key array
SortOutcomes(keys) == {p \in Perms(Len(keys)) : Ascending(keys, p)}

KeyArrays(frame) == {DateKeys(frame, t) : t \in {frame[i].ticker : i \in 1..Len(frame)}}

\* df[df['ticker'] == ticker].sort_values('date'): row labels in replay order
sort_values(frame, t, srt) ==
    [k \in 1..Len(TickerRows(frame, t)) |-> TickerRows(frame, t)[srt[DateKeys(frame, t)][k]]]

\* ------------------------------------------------- calculate_pnl: a step
\* The running state of one ticker's replay is [position, total_cost,
\* realized_pnl]; the operators below are the branches of the loop body.

\* the three assignments hoisted out of the ticker loop: nothing is reset
ResetState_Keep(prev) == prev

\* position = 0; total_cost = 0; realized_pnl = 0, set at the top of every
\* ticker's iteration (prev: the values the previous ticker left behind)
ResetState(prev) == [position |-> RZero, total_cost |-> RZero, realized_pnl |-> RZero]

\* if position >= 0: a sell against a flat position is treated as closing
HasPosition_NonNegative(pos) == ~RGt(RZero, pos)

\* if position > 0:
HasPosition(pos) == RGt(pos, RZero)

\* avg_cost = total_cost / position if position > 0 else 0
avg_cost(st) == IF RGt(st.position, RZero) THEN RDiv(st.total_cost, st.position) ELSE RZero

\* the sell's fees left out of its P&L
trade_pnl_NoFees(st, trade) ==
    RMul(RSub(trade.price, avg_cost(st)), trade.quantity)

\* trade_pnl = (trade['price'] - avg_cost) * trade['quantity'] - trade['fees']
trade_pnl(st, trade) ==
    RSub(RMul(RSub(trade.price, avg_cost(st)), trade.quantity), trade.fees)

\* realized_pnl = trade_pnl: the total overwritten, not accumulated
Accumulate_Overwrite(running, pnl) == pnl

\* realized_pnl += trade_pnl
Accumulate(running, pnl) == RAdd(running, pnl)

\* total_cost += price * quantity: the buy's fees left out of the cost basis
AddPosition_NoFees(st, trade) ==
    [position |-> RAdd(st.position, trade.quantity),
     total_cost |-> RAdd(st.total_cost, RMul(trade.price, trade.quantity))]

\* Buy: position += quantity; total_cost += total_cost of the row
AddPosition(st, trade) ==
    [position |-> RAdd(st.position, trade.quantity),
     total_cost |-> RAdd(st.total_cost, trade.total_cost)]

\* the cost basis not shrunk while a position remains
ReducePosition_KeepCost(st, trade) ==
    LET new_position == RSub(st.position, trade.quantity)
    IN  [position |-> new_position,
         total_cost |-> IF RGt(new_position, RZero) THEN st.total_cost ELSE RZero]

\* Sell: position -= quantity;
\* total_cost = total_cost * (position / (position + quantity)) if position > 0 else 0
ReducePosition(st, trade) ==
    LET new_position == RSub(st.position, trade.quantity)
    IN  [position |-> new_position,
         total_cost |-> IF RGt(new_position, RZero)
                        THEN RMul(st.total_cost,
                                  RDiv(new_position, RAdd(new_position, trade.quantity)))
                        ELSE RZero]

\* a division of the loop body is evaluated with a zero divisor
DivisionByZero(st, trade) ==
    /\ trade.trade_type # "Buy"
    /\ HasPosition(st.position)
    /\ \/ RGt(st.position, RZero) /\ RIsZero(st.position)
       \/ LET new_position == RSub(st.position, trade.quantity)
          IN  RGt(new_position, RZero) /\ RIsZero(RAdd(new_position, trade.quantity))

\* one iteration of `for idx, trade in ticker_trades.iterrows()`, up to the
\* write-back: the new running state and, for a closing sell, its trade_pnl
ProcessTrade(st, trade) ==
    IF trade.trade_type = "Buy"
    THEN [position |-> AddPosition(st, trade).position,
          total_cost |-> AddPosition(st, trade).total_cost,
          realized_pnl |-> st.realized_pnl,
          closing |-> FALSE, trade_pnl |-> RZero]
    ELSE IF HasPosition(st.position)
    THEN [position |-> ReducePosition(st, trade).position,
          total_cost |-> ReducePosition(st, trade).total_cost,
          realized_pnl |-> Accumulate(st.realized_pnl, trade_pnl(st, trade)),
          closing |-> TRUE, trade_pnl |-> trade_pnl(st, trade)]
    ELSE [position |-> st.position, total_cost |-> st.total_cost,
          realized_pnl |-> st.realized_pnl,
          closing |-> FALSE, trade_pnl |-> RZero]

\* df.loc[idx, 'realized_pnl'] += realized_pnl: added to what the row holds
WriteBack_AddTo(frame, idx, value) ==
    [frame EXCEPT ![idx].realized_pnl = RAdd(frame[idx].realized_pnl, value),
                  ![idx].unrealized_pnl = RZero]

\* the running total written to the wrong column
WriteBack_Unrealized(frame, idx, value) ==
    [frame EXCEPT ![idx].unrealized_pnl = value]

\* df.loc[idx, 'realized_pnl'] = realized_pnl; df.loc[idx, 'unrealized_pnl'] = 0
WriteBack(frame, idx, value) ==
    [frame EXCEPT ![idx].realized_pnl = value, ![idx].unrealized_pnl = RZero]

\* ticker_trades.iterrows(): (label, row) pairs of the sorted copy of the rows
iterrows(frame, t, srt) ==
    [k \in 1..Len(TickerRows(frame, t)) |->
        [idx |-> sort_values(frame, t, srt)[k], trade |-> frame[sort_values(frame, t, srt)[k]]]]

\* ------------------------------------------- calculate_pnl: a whole call
\* the inner loop over one ticker's sorted rows: reads the rows of the sorted
\* copy (src), writes the running total into the working frame (out)
RECURSIVE ReplayTrades(_, _, _)
ReplayTrades(out, rows, st) ==
    IF rows = <<>> THEN [df |-> out, st |-> st]
    ELSE LET r == ProcessTrade(st, Head(rows).trade)
         IN  ReplayTrades(WriteBack(out, Head(rows).idx, r.realized_pnl), Tail(rows),
                          [position |-> r.position, total_cost |-> r.total_cost,
                           realized_pnl |-> r.realized_pnl])

\* the outer loop over df['ticker'].unique()
RECURSIVE ReplayTickers(_, _, _, _)
ReplayTickers(out, ts, srt, st) ==
    IF ts = <<>> THEN out
    ELSE LET res == ReplayTrades(out, iterrows(out, Head(ts), srt), ResetState(st))
         IN  ReplayTickers(res.df, Tail(ts), srt, res.st)

\* calculate_pnl(trades_df) under the sort outcomes srt: the returned frame
calculate_pnl(frame, srt) ==
    ReplayTickers(frame, unique(frame), srt,
                  [position |-> RZero, total_cost |-> RZero, realized_pnl |-> RZero])

\* ------------------------------------------------------ inputs to compare
\* the orderings of a frame that keep every ticker's own rows in their order
Interleavings(frame) ==
    {q \in Perms(Len(frame)) :
        \A i, j \in 1..Len(frame) :
            (i < j /\ frame[q[i]].ticker = frame[q[j]].ticker) => q[i] < q[j]}

Reordered(frame, q) == [k \in 1..Len(frame) |-> frame[q[k]]]

Without(frame, t) == SelectSeq(frame, LAMBDA row : row.ticker # t)

NoCall == [kind |-> "none", input |-> <<>>, output |-> <<>>]

\* the variables of the other calls, where no such call is made
NoFrame == [columns |-> {}, rows |-> <<>>]
NoDict == [k \in {} |-> RZero]
MetricsIdle ==
    /\ metrics_in = NoFrame
    /\ metrics_after = NoFrame
    /\ metrics = NoDict
    /\ stats = NoDict
RiskIdle == risk_in = NoDict /\ risk_out = NoDict
LedgerIdle == ledger = {} /\ last_op = [op |-> "none"]
AppIdle == files = NoDict /\ session = NoDict /\ backup = NoDict

\* ------------------------------------------------------------------ Init
Init ==
    /\ \E n \in 1..MaxTrades : \E c \in [1..n -> Cores] : trades_df = Frame(n, c)
    /\ argsort \in {a \in [KeyArrays(trades_df) -> UNION {Perms(n) : n \in 1..MaxTrades}] :
                        \A k \in KeyArrays(trades_df) : a[k] \in SortOutcomes(k)}
    /\ df = <<>>
    /\ pc = "call"
    /\ tickers = <<>>
    /\ ticker_trades = <<>>
    /\ position = RZero
    /\ total_cost = RZero
    /\ realized_pnl = RZero
    /\ steps = <<>>
    /\ raised = FALSE
    /\ again = NoCall
    /\ MetricsIdle
    /\ RiskIdle
    /\ LedgerIdle
    /\ AppIdle

\* --------------------------------------------------------------- actions
\* df = trades_df.copy(); for ticker in df['ticker'].unique():
Call ==
    /\ pc = "call"
    /\ df' = trades_df
    /\ tickers' = unique(trades_df)
    /\ pc' = "tickers"
    /\ UNCHANGED <<trades_df, ticker_trades, position, total_cost, realized_pnl,
                   argsort, steps, raised, again>>
    /\ UNCHANGED <<metrics_vars, risk_vars, ledger_vars, app_vars>>

\* the next ticker: filter its rows, sort them by date, reset the running state
NextTicker ==
    /\ pc = "tickers"
    /\ tickers # <<>>
    /\ ticker_trades' = iterrows(df, Head(tickers), argsort)
    /\ LET st == ResetState([position |-> position, total_cost |-> total_cost,
                             realized_pnl |-> realized_pnl])
       IN  /\ position' = st.position
           /\ total_cost' = st.total_cost
           /\ realized_pnl' = st.realized_pnl
    /\ tickers' = Tail(tickers)
    /\ pc' = "trades"
    /\ UNCHANGED <<trades_df, df, argsort, steps, raised, again>>
    /\ UNCHANGED <<metrics_vars, risk_vars, ledger_vars, app_vars>>

\* one iteration of the inner loop: the branch of the row, then the write-back
Iterate ==
    /\ pc = "trades"
    /\ ticker_trades # <<>>
    /\ LET idx == Head(ticker_trades).idx
           trade == Head(ticker_trades).trade
           st == [position |-> position, total_cost |-> total_cost,
                  realized_pnl |-> realized_pnl]
           r == ProcessTrade(st, trade)
       IN  /\ position' = r.position
           /\ total_cost' = r.total_cost
           /\ realized_pnl' = r.realized_pnl
           /\ raised' = (raised \/ DivisionByZero(st, trade))
           /\ df' = WriteBack(df, idx, r.realized_pnl)
           /\ steps' = Append(steps, [idx |-> idx, trade |-> trade, before |-> st,
                                      after |-> r])
    /\ ticker_trades' = Tail(ticker_trades)
    /\ UNCHANGED <<trades_df, pc, tickers, argsort, again>>
    /\ UNCHANGED <<metrics_vars, risk_vars, ledger_vars, app_vars>>

\* the inner loop is exhausted: back to the outer loop
EndTicker ==
    /\ pc = "trades"
    /\ ticker_trades = <<>>
    /\ pc' = "tickers"
    /\ UNCHANGED <<trades_df, df, tickers, ticker_trades, position, total_cost,
                   realized_pnl, argsort, steps, raised, again>>
    /\ UNCHANGED <<metrics_vars, risk_vars, ledger_vars, app_vars>>

\* return df
Return ==
    /\ pc = "tickers"
    /\ tickers = <<>>
    /\ pc' = "done"
    /\ UNCHANGED <<trades_df, df, tickers, ticker_trades, position, total_cost,
                   realized_pnl, argsort, steps, raised, again>>
    /\ UNCHANGED <<metrics_vars, risk_vars, ledger_vars, app_vars>>

\* a further, whole call of calculate_pnl on `input`
CallOn(kind, input) ==
    /\ pc = "done"
    /\ again' = [kind |-> kind, input |-> input, output |-> calculate_pnl(input, argsort)]
    /\ pc' = "compared"
    /\ UNCHANGED <<trades_df, df, tickers, ticker_trades, position, total_cost,
                   realized_pnl, argsort, steps, raised>>
    /\ UNCHANGED <<metrics_vars, risk_vars, ledger_vars, app_vars>>

\* calculate_pnl(trades_df) once more
CallSame == CallOn("same", trades_df)

\* calculate_pnl(calculate_pnl(trades_df))
CallOnOutput == CallOn("output", df)

\* calculate_pnl of the same trades, the tickers interleaved differently
CallReordered == \E q \in Interleavings(trades_df) : CallOn("reordered", Reordered(trades_df, q))

\* calculate_pnl of the trades without those of one ticker
CallWithout ==
    \E t \in Tickers :
        /\ Without(trades_df, t) # <<>>
        /\ Without(trades_df, t) # trades_df
        /\ CallOn("without", Without(trades_df, t))

Next ==
    \/ Call
    \/ NextTicker
    \/ Iterate
    \/ EndTicker
    \/ Return
    \/ CallSame
    \/ CallOnOutput
    \/ CallReordered
    \/ CallWithout

Spec == Init /\ [][Next]_vars

TypeOK ==
    /\ pc \in {"call", "tickers", "trades", "done", "compared", "measured",
              "returned", "ledger", "app"}
    /\ Len(df) \in {0, Len(trades_df)}

\* ---------------------------------------------------- reading the log
IsSell(s) == s.trade.trade_type = "Sell"
IsBuy(s) == s.trade.trade_type = "Buy"
SameTicker(j, k) == steps[j].trade.ticker = steps[k].trade.ticker

\* the sell of step s met an open long position / met none
MetPosition(s) == IsSell(s) /\ RGt(s.before.position, RZero)
MetNoPosition(s) == IsSell(s) /\ ~RGt(s.before.position, RZero)

\* what the step added to the running realized total
Added(s) == RSub(s.after.realized_pnl, s.before.realized_pnl)

\* the close-out contribution of a step, from the row and the position state
\* before it: (unit_price - avg_cost) * quantity - fees for a sell that met a
\* position, 0 for any other row
CloseOut(s) ==
    IF MetPosition(s)
    THEN RSub(RMul(RSub(s.trade.price, RDiv(s.before.total_cost, s.before.position)),
                   s.trade.quantity),
              s.trade.fees)
    ELSE RZero

\* sum of f over the steps 1..k of the log that replay the ticker of step k
RECURSIVE SumUpTo(_, _, _)
SumUpTo(f(_), j, k) ==
    IF j = 0 THEN RZero
    ELSE RAdd(SumUpTo(f, j - 1, k), IF SameTicker(j, k) THEN f(steps[j]) ELSE RZero)

\* the step that replayed row idx (every row is replayed once)
StepOf(idx) == CHOOSE k \in 1..Len(steps) : steps[k].idx = idx

\* ----------------------------------------------------------------- C1
\* C1: every Sell processed while the running open quantity is > 0 adds to the
\* running realized total exactly (unit_price - avg_cost) * quantity - fees,
\* avg_cost being open_cost_basis / open_quantity just before that Sell.
\* Stated without the division: (added + fees) * open_quantity
\*                              = (unit_price * open_quantity - open_cost_basis) * quantity.
C1_SellContribution ==
    \A k \in 1..Len(steps) :
        MetPosition(steps[k]) =>
            RMul(RAdd(Added(steps[k]), steps[k].trade.fees), steps[k].before.position)
              = RMul(RSub(RMul(steps[k].trade.price, steps[k].before.position),
                          steps[k].before.total_cost),
                     steps[k].trade.quantity)

\* a Sell with fees met a position whose average cost is not a whole number
C1_Witness ==
    \E k \in 1..Len(steps) :
        /\ MetPosition(steps[k])
        /\ RGt(steps[k].trade.fees, RZero)
        /\ RDiv(steps[k].before.total_cost, steps[k].before.position)[2] # 1
        /\ ~RIsZero(Added(steps[k]))

\* ----------------------------------------------------------------- C2
\* C2: after replay every row's realized_pnl is the sum of the close-out
\* contributions of the Sells of its instrument replayed up to and including
\* the row itself, and the replay order is the timestamp order: a Sell with
\* an earlier timestamp is counted, one with a later timestamp is not.
C2_CumulativePerRow ==
    pc = "done" =>
        \A i \in 1..Len(df) :
            /\ df[i].realized_pnl = SumUpTo(CloseOut, StepOf(i), StepOf(i))
            /\ \A j \in 1..Len(steps) :
                   SameTicker(j, StepOf(i)) =>
                       /\ steps[j].trade.date < df[i].date => j < StepOf(i)
                       /\ steps[j].trade.date > df[i].date => j > StepOf(i)

\* a finished replay in which a row carries the sum of two non-zero contributions
C2_Witness ==
    /\ pc = "done"
    /\ \E j, k \in 1..Len(steps) :
           /\ j < k /\ SameTicker(j, k)
           /\ ~RIsZero(CloseOut(steps[j])) /\ ~RIsZero(CloseOut(steps[k]))
           /\ df[steps[k].idx].realized_pnl # CloseOut(steps[k])

\* ---------------------------------------------------------------- C10
\* C10: within an instrument the rows are replayed in ascending timestamp
\* order, rows with equal timestamps in their input order.
C10_StableReplayOrder ==
    \A j, k \in 1..Len(steps) :
        (j < k /\ SameTicker(j, k)) =>
            /\ steps[j].trade.date <= steps[k].trade.date
            /\ steps[j].trade.date = steps[k].trade.date => steps[j].idx < steps[k].idx

\* ----------------------------------------------------------------- C3
\* C3: after replay every Buy row has realized_pnl = 0, also a Buy that
\* follows Sells of its instrument that realized a non-zero P&L.  Stated of
\* the replays that took rows with equal timestamps in input order, so that
\* what refutes it is the write-back and not the order of a tie.
C3_BuyRowsZero ==
    (pc = "done" /\ C10_StableReplayOrder) =>
        \A i \in 1..Len(df) : df[i].trade_type = "Buy" => RIsZero(df[i].realized_pnl)

C5_SellWithoutPosition ==
    /\ ~raised
    /\ \A i \in 1..Len(df) : df[i].realized_pnl[2] > 0
    /\ \A k \in 1..Len(steps) :
        MetNoPosition(steps[k]) =>
            /\ RIsZero(Added(steps[k]))
            /\ steps[k].after.position = steps[k].before.position
            /\ steps[k].after.total_cost = steps[k].before.total_cost
            /\ df[steps[k].idx].realized_pnl = steps[k].before.realized_pnl

\* a Sell met a position already oversold, after a non-zero P&L was realized
C5_Witness ==
    \E k \in 1..Len(steps) :
        /\ MetNoPosition(steps[k])
        /\ RGt(RZero, steps[k].before.position)
        /\ ~RIsZero(steps[k].before.realized_pnl)

\* ----------------------------------------------------------------- C6
TradePnl(s) == s.after.trade_pnl
RowValue(s) == s.after.realized_pnl

\* the step is the last Sell of its instrument in the replay
LastSell(k) ==
    /\ IsSell(steps[k])
    /\ \A j \in 1..Len(steps) : (SameTicker(j, k) /\ IsSell(steps[j])) => j <= k

\* C6: after replay, the realized_pnl stored on an instrument's last
\* chronological Sell equals the sum of the trade_pnl of all that instrument's
\* close-outs.
C6_LastSellCarriesTotal ==
    pc = "done" =>
        \A k \in 1..Len(steps) :
            LastSell(k) =>
                /\ df[steps[k].idx].realized_pnl = SumUpTo(TradePnl, Len(steps), k)
                /\ \A j \in 1..Len(steps) :
                       (SameTicker(j, k) /\ IsSell(steps[j])) =>
                           steps[j].trade.date <= steps[k].trade.date

\* two close-outs of one instrument, and the sum over the rows' realized_pnl
\* differs from the value on the last Sell
C6_Witness ==
    /\ pc = "done"
    /\ \E j, k \in 1..Len(steps) :
           /\ j < k /\ SameTicker(j, k) /\ LastSell(k)
           /\ ~RIsZero(TradePnl(steps[j])) /\ ~RIsZero(TradePnl(steps[k]))
           /\ SumUpTo(RowValue, Len(steps), k) # df[steps[k].idx].realized_pnl

\* ----------------------------------------------------------------- C7
Quantity(s) == s.trade.quantity
GrossCost(s) == RAdd(RMul(s.trade.price, s.trade.quantity), s.trade.fees)

\* the instrument of step k has seen only Buys up to and including step k
BuysOnly(k) == \A j \in 1..k : SameTicker(j, k) => IsBuy(steps[j])

\* C7: after replaying only Buys of an instrument, open_cost_basis is the sum
\* of price * quantity + fees of those Buys and open_quantity the sum of their
\* quantities, so the average cost is the fee-inclusive volume-weighted price.
C7_BuysOnlyAverage ==
    \A k \in 1..Len(steps) :
        BuysOnly(k) =>
            /\ steps[k].after.position = SumUpTo(Quantity, k, k)
            /\ steps[k].after.total_cost = SumUpTo(GrossCost, k, k)
            /\ avg_cost(steps[k].after) = RDiv(SumUpTo(GrossCost, k, k), SumUpTo(Quantity, k, k))

\* two Buys of one instrument, with fees, whose average cost is not a whole number
C7_Witness ==
    \E j, k \in 1..Len(steps) :
        /\ j < k /\ SameTicker(j, k) /\ BuysOnly(k)
        /\ RGt(steps[k].trade.fees, RZero)
        /\ steps[j].trade.price # steps[k].trade.price
        /\ avg_cost(steps[k].after)[2] # 1

\* ----------------------------------------------------------------- C8
\* C8: replaying the same trades with the instruments interleaved differently
\* (each instrument's own rows in the same relative order), or without the
\* trades of another instrument, gives every trade the same realized_pnl.
C8_InstrumentsIndependent ==
    again.kind \in {"reordered", "without"} =>
        \A r \in 1..Len(again.output) :
            again.output[r].realized_pnl = df[again.output[r].id].realized_pnl

\* a reordering that changes which instrument is replayed first, the frame
\* holding a non-zero realized_pnl
C8_Witness ==
    /\ again.kind = "reordered"
    /\ unique(again.input) # unique(trades_df)
    /\ \E i \in 1..Len(df) : ~RIsZero(df[i].realized_pnl)

\* ----------------------------------------------------------------- C9
\* C9: calculate_pnl applied to the same frame again, and calculate_pnl
\* applied to its own output (realized_pnl already populated), gives every
\* row the realized_pnl of the first call.
C9_Idempotent ==
    again.kind \in {"same", "output"} =>
        /\ Len(again.output) = Len(df)
        /\ \A i \in 1..Len(df) : again.output[i].realized_pnl = df[i].realized_pnl

\* the second call ran on an output that carries non-zero realized_pnl
C9_Witness ==
    /\ again.kind = "output"
    /\ \E i \in 1..Len(again.input) : ~RIsZero(again.input[i].realized_pnl)

\* ======================================================================
\* TradingCalculator.calculate_metrics (src/utils.py) on a replayed frame
\* ======================================================================

\* <<trade_type, price, quantity, fees>> of the rows handed to the metrics: a
\* buy of 10 at 100 and sells that close it at a loss, at a gain, or in one go
ScenarioTrades == {<<"Buy", 100, 10, 0>>, <<"Sell", 90, 5, 0>>,
                   <<"Sell", 110, 5, 0>>, <<"Sell", 120, 10, 0>>}

ScenarioCores == (1..MaxDate) \X Tickers \X ScenarioTrades

ScenarioFrame(n, c) ==
    [i \in 1..n |-> MkRow(i, c[i][1], c[i][2], c[i][3][1], c[i][3][2], c[i][3][3], c[i][3][4])]

\* the columns of the frame get_trades builds, as far as the model carries them
Columns == {"id", "date", "ticker", "trade_type", "price", "quantity", "fees",
            "total_cost", "realized_pnl", "unrealized_pnl"}

\* float('inf'), and a value the model does not compute (it involves a
\* standard deviation and a square root)
Inf == <<1, 0>>
NotComputed == <<0, 0>>

RLt(a, b) == RGt(b, a)
RAbs(a) == <<Abs(a[1]), a[2]>>

\* ------------------------------------------------------ Series operators
\* frame[column] as a Series, in row order
Column(frame, c) == [i \in 1..Len(frame) |-> frame[i][c]]

\* Series.sum()
RECURSIVE RSum(_)
RSum(s) == IF s = <<>> THEN RZero ELSE RAdd(Head(s), RSum(Tail(s)))

\* Series.mean() of a non-empty Series
RMean(s) == RDiv(RSum(s), R(Len(s)))

\* Series.max() and Series.min() of a non-empty Series
RMax(s) == CHOOSE x \in {s[i] : i \in 1..Len(s)} : \A i \in 1..Len(s) : ~RGt(s[i], x)
RMin(s) == CHOOSE x \in {s[i] : i \in 1..Len(s)} : \A i \in 1..Len(s) : ~RLt(s[i], x)

\* Series.cumsum() and Series.expanding().max()
cumsum(s) == [i \in 1..Len(s) |-> RSum(SubSeq(s, 1, i))]
expanding_max(s) == [i \in 1..Len(s) |-> RMax(SubSeq(s, 1, i))]

\* cumulative_pnl - running_max, and its minimum, of a non-empty Series
drawdown(s) == [i \in 1..Len(s) |-> RSub(cumsum(s)[i], expanding_max(cumsum(s))[i])]
max_drawdown(s) == RMin(drawdown(s))

\* ------------------------------------------- calculate_metrics: the parts
\* trades_df[trades_df['realized_pnl'] != 0] and its winning and losing rows
realized_trades(frame) == SelectSeq(frame, LAMBDA r : ~RIsZero(r.realized_pnl))
winning_trades(frame) == SelectSeq(realized_trades(frame), LAMBDA r : RGt(r.realized_pnl, RZero))
losing_trades(frame) == SelectSeq(realized_trades(frame), LAMBDA r : RLt(r.realized_pnl, RZero))

\* trades_df['realized_pnl'].sum() + trades_df['unrealized_pnl'].sum()
total_pnl(frame) == RAdd(RSum(Column(frame, "realized_pnl")), RSum(Column(frame, "unrealized_pnl")))

\* len(winning_trades) / len(realized_trades) * 100, 0 without realized rows
win_rate(frame) ==
    IF realized_trades(frame) = <<>> THEN RZero
    ELSE RMul(RDiv(R(Len(winning_trades(frame))), R(Len(realized_trades(frame)))), R(100))

avg_win(frame) ==
    IF winning_trades(frame) = <<>> THEN RZero
    ELSE RMean(Column(winning_trades(frame), "realized_pnl"))

avg_loss(frame) ==
    IF losing_trades(frame) = <<>> THEN RZero
    ELSE RMean(Column(losing_trades(frame), "realized_pnl"))

\* the quotient without its guard's else branch: 0 where the code gives inf
profit_factor_NoSentinel(frame) ==
    IF realized_trades(frame) = <<>> THEN RZero
    ELSE RAbs(RDiv(RSum(Column(winning_trades(frame), "realized_pnl")),
                   RSum(Column(losing_trades(frame), "realized_pnl"))))

\* abs(winning.sum() / losing.sum()) if len(losing) > 0 and losing.sum() != 0
\* else float('inf'); 0 without realized rows
profit_factor(frame) ==
    IF realized_trades(frame) = <<>> THEN RZero
    ELSE IF /\ Len(losing_trades(frame)) > 0
            /\ ~RIsZero(RSum(Column(losing_trades(frame), "realized_pnl")))
         THEN RAbs(RDiv(RSum(Column(winning_trades(frame), "realized_pnl")),
                        RSum(Column(losing_trades(frame), "realized_pnl"))))
         ELSE Inf

\* returns.mean() / returns.std() * sqrt(252) over more than one realized row
sharpe_ratio(frame) == IF Len(realized_trades(frame)) > 1 THEN NotComputed ELSE RZero

\* date.dt.to_period('M'): timestamps 1, 2 fall in month 1, 3 and 4 in month 2, ...
Month(d) == (d + 1) \div 2

\* trades_df['month'] = ...: every row of the frame gets the new column
WithMonth(frame) ==
    [i \in 1..Len(frame) |->
        [c \in DOMAIN frame[i] \cup {"month"} |->
            IF c = "month" THEN Month(frame[i].date) ELSE frame[i][c]]]

\* trades_df.groupby('month')['realized_pnl'].sum(), as the Series of the sums
monthly_pnl(frame) ==
    LET months == {Month(frame[i].date) : i \in 1..Len(frame)}
        total(m) == RSum(Column(SelectSeq(frame, LAMBDA r : Month(r.date) = m), "realized_pnl"))
    IN  {total(m) : m \in months}

SetMax(S) == CHOOSE x \in S : \A y \in S : ~RGt(y, x)
SetMin(S) == CHOOSE x \in S : \A y \in S : ~RLt(y, x)

\* the keys of the dict calculate_metrics returns for a non-empty frame
MetricKeys == {"total_trades", "total_pnl", "win_rate", "avg_win", "avg_loss",
               "profit_factor", "max_drawdown", "sharpe_ratio", "largest_win",
               "largest_loss", "best_month", "worst_month", "total_volume",
               "avg_trade_size"}

\* calculate_metrics(trades_df): the dict returned ({} for an empty frame)
calculate_metrics(frame) ==
    IF frame = <<>> THEN NoDict
    ELSE [total_trades |-> R(Len(frame)),
          total_pnl |-> total_pnl(frame),
          win_rate |-> win_rate(frame),
          avg_win |-> avg_win(frame),
          avg_loss |-> avg_loss(frame),
          profit_factor |-> profit_factor(frame),
          max_drawdown |-> max_drawdown(Column(frame, "realized_pnl")),
          sharpe_ratio |-> sharpe_ratio(frame),
          largest_win |-> RMax(Column(frame, "realized_pnl")),
          largest_loss |-> RMin(Column(frame, "realized_pnl")),
          best_month |-> SetMax(monthly_pnl(frame)),
          worst_month |-> SetMin(monthly_pnl(frame)),
          total_volume |-> RSum(Column(frame, "total_cost")),
          avg_trade_size |-> RMean(Column(frame, "total_cost"))]

\* the frame object the caller passed, once calculate_metrics has returned
AfterMetrics(obj) ==
    IF obj.rows = <<>> THEN obj
    ELSE [columns |-> obj.columns \cup {"month"}, rows |-> WithMonth(obj.rows)]

\* ------------------------------------------ the metrics of a replayed frame
\* A non-empty frame is first replayed by calculate_pnl (the actions above);
\* an empty one, as get_trades returns it for an empty table, is handed on as
\* it is.
InitMetrics ==
    /\ \E n \in 0..MaxTrades : \E c \in [1..n -> ScenarioCores] :
            trades_df = ScenarioFrame(n, c)
    /\ argsort \in {a \in [KeyArrays(trades_df) -> UNION {Perms(n) : n \in 1..MaxTrades}] :
                        \A k \in KeyArrays(trades_df) : a[k] \in SortOutcomes(k)}
    /\ df = <<>>
    /\ pc = IF trades_df = <<>> THEN "done" ELSE "call"
    /\ tickers = <<>>
    /\ ticker_trades = <<>>
    /\ position = RZero
    /\ total_cost = RZero
    /\ realized_pnl = RZero
    /\ steps = <<>>
    /\ raised = FALSE
    /\ again = NoCall
    /\ MetricsIdle
    /\ RiskIdle
    /\ LedgerIdle
    /\ AppIdle

\* metrics = calculate_metrics(df), df the frame calculate_pnl returned
Metrics ==
    /\ pc = "done"
    /\ metrics_in' = [columns |-> IF df = <<>> THEN {} ELSE Columns, rows |-> df]
    /\ metrics_after' = AfterMetrics(metrics_in')
    /\ metrics' = calculate_metrics(df)
    /\ stats' = stats
    /\ pc' = "measured"
    /\ UNCHANGED <<trades_df, df, tickers, ticker_trades, position, total_cost,
                   realized_pnl, argsort, steps, raised, again>>
    /\ UNCHANGED <<risk_vars, ledger_vars, app_vars>>

\* DatabaseManager.get_trade_stats (src/data.py) on the frame df = get_trades():
\* the six statistics; the win rate is taken over all the trades
get_trade_stats(frame) ==
    IF frame = <<>>
    THEN [total_trades |-> RZero, total_pnl |-> RZero, win_rate |-> RZero,
          avg_win |-> RZero, avg_loss |-> RZero, max_drawdown |-> RZero]
    ELSE [total_trades |-> R(Len(frame)),
          total_pnl |-> total_pnl(frame),
          win_rate |-> RMul(RDiv(R(Len(winning_trades(frame))), R(Len(frame))), R(100)),
          avg_win |-> avg_win(frame),
          avg_loss |-> avg_loss(frame),
          max_drawdown |-> max_drawdown(Column(frame, "realized_pnl"))]

\* stats = get_trade_stats() of a table holding the rows that were measured
TradeStats ==
    /\ pc = "measured"
    /\ stats' = get_trade_stats(df)
    /\ pc' = "compared"
    /\ UNCHANGED <<trades_df, df, tickers, ticker_trades, position, total_cost,
                   realized_pnl, argsort, steps, raised, again>>
    /\ UNCHANGED <<metrics_in, metrics_after, metrics, risk_vars, ledger_vars, app_vars>>

NextMetrics ==
    \/ Call
    \/ NextTicker
    \/ Iterate
    \/ EndTicker
    \/ Return
    \/ Metrics
    \/ TradeStats

SpecMetrics == InitMetrics /\ [][NextMetrics]_vars

\* -------------------------------------------------- reading the metrics
Measured == pc = "measured" /\ df # <<>>

\* the steps of the replay that are sells closing (part of) an open position
ClosingSteps == {k \in 1..Len(steps) : MetPosition(steps[k])}

\* the last replayed step of each instrument
LastSteps == {k \in 1..Len(steps) : \A j \in (k + 1)..Len(steps) : ~SameTicker(j, k)}

RECURSIVE SumOver(_, _)
SumOver(f(_), S) ==
    IF S = {} THEN RZero
    ELSE LET x == CHOOSE y \in S : TRUE IN RAdd(f(x), SumOver(f, S \ {x}))

FinalCumulative(k) == steps[k].after.realized_pnl

\* the three rows Buy 10 @ 100, Sell 5 @ 90, Sell 5 @ 110 of one instrument,
\* replayed in that order
BuySellSell ==
    /\ Len(steps) = 3
    /\ \A k \in 1..3 : steps[k].trade.ticker = "AAPL"
    /\ IsBuy(steps[1])
    /\ IsSell(steps[2]) /\ steps[2].trade.price = R(90)
    /\ IsSell(steps[3]) /\ steps[3].trade.price = R(110)

\* C11: total_pnl of the metrics of a replayed frame is the sum over the
\* instruments of the instrument's final cumulative realized_pnl plus the
\* unrealized P&L, and so 0 for Buy 10 @ 100, Sell 5 @ 90, Sell 5 @ 110.
C11_TotalIsFinalCumulative ==
    Measured =>
        /\ metrics.total_pnl = RAdd(SumOver(FinalCumulative, LastSteps),
                                    RSum(Column(df, "unrealized_pnl")))
        /\ BuySellSell => metrics.total_pnl = RZero

\* C12: every sell that closed a part of an open position is one of the
\* realized rows the win rate is computed over, whatever cumulative value it
\* carries; Buy 10 @ 100, Sell 5 @ 90, Sell 5 @ 110 has a win rate of 50%.
C12_ClosingSellsAreRealized ==
    Measured =>
        /\ \A k \in ClosingSteps :
                \E i \in 1..Len(realized_trades(df)) : realized_trades(df)[i].id = steps[k].idx
        /\ BuySellSell => metrics.win_rate = R(50)

\* C13: the metrics of an empty trade set carry every metric, each equal to 0.
C13_EmptyIsAllZero ==
    (pc = "measured" /\ df = <<>>) =>
        /\ DOMAIN metrics = MetricKeys
        /\ \A k \in DOMAIN metrics : metrics[k] = RZero

\* the rows of the measured frame with a gain / with a loss, and their sums
Winners == SelectSeq(df, LAMBDA r : RGt(r.realized_pnl, RZero))
Losers == SelectSeq(df, LAMBDA r : RGt(RZero, r.realized_pnl))
WinSum == RSum(Column(Winners, "realized_pnl"))
LossSum == RSum(Column(Losers, "realized_pnl"))

\* C14: profit_factor is |sum of the gains| / |sum of the losses| when there
\* are losing rows, infinity when there are winning rows and no losing ones
\* (Buy 10 @ 100, Sell 10 @ 120: win rate 100%, infinity), and 0 when no row
\* realized anything.
C14_ProfitFactor ==
    Measured =>
        /\ Losers # <<>> =>
                /\ metrics.profit_factor[2] # 0
                /\ RMul(metrics.profit_factor, RAbs(LossSum)) = RAbs(WinSum)
        /\ (Losers = <<>> /\ Winners # <<>>) => metrics.profit_factor = Inf
        /\ ClosingSteps = {} => metrics.profit_factor = RZero

C14_Witness ==
    /\ Measured
    /\ Len(steps) = 2
    /\ IsBuy(steps[1])
    /\ IsSell(steps[2]) /\ steps[2].trade.price = R(120) /\ SameTicker(1, 2)
    /\ df[steps[2].idx].realized_pnl = R(200)
    /\ metrics.win_rate = R(100)
    /\ metrics.profit_factor = Inf

\* the realized_pnl column of the measured frame in the row order p
InOrder(p) == [k \in 1..Len(df) |-> df[p[k]].realized_pnl]

\* C15: max_drawdown is the minimum of cumulative - running maximum over the
\* realized P&L of the rows taken in ascending timestamp order, whatever the
\* row order of the input, and is never positive.
C15_DrawdownInTimeOrder ==
    Measured =>
        /\ ~RGt(metrics.max_drawdown, RZero)
        /\ \E p \in SortOutcomes(Column(df, "date")) :
                metrics.max_drawdown = max_drawdown(InOrder(p))

\* C16: after calculate_metrics the frame the caller passed has the rows,
\* columns and values it had before the call; so has, after calculate_pnl,
\* the frame passed to it.
C16_InputUntouched ==
    /\ pc = "measured" => metrics_after = metrics_in
    /\ pc \in {"done", "measured"} =>
            \A i \in 1..Len(trades_df) :
                /\ DOMAIN trades_df[i] = Columns
                /\ trades_df[i].realized_pnl = RZero

\* ======================================================================
\* TradingCalculator.calculate_risk_metrics (src/utils.py)
\* ======================================================================

\* the arguments: account_value, and the entries trade_data may carry.  The
\* stop loss, the win rate and the averages may be absent (dict.get defaults).
AccountValues == {R(0), R(150), R(10000)}
Prices == {R(0), R(50), R(100)}
OptionalKeys == {"stop_loss_pct", "win_rate", "avg_win", "avg_loss"}
Choices(k) ==
    CASE k = "stop_loss_pct" -> {R(0), RNorm(1, 50), RNorm(1, 2)}
      [] k = "win_rate" -> {R(0), RNorm(1, 2), R(1)}
      [] k = "avg_win" -> {R(0), R(100)}
      [] k = "avg_loss" -> {R(0), R(-50), R(50)}

\* trade_data.get(k, default)
Get(d, k, default) == IF k \in DOMAIN d THEN d[k] ELSE default

\* int(x): truncation towards zero
int(a) == IF a[1] >= 0 THEN a[1] \div a[2] ELSE -((-a[1]) \div a[2])

RMinOf(a, b) == IF RLt(b, a) THEN b ELSE a
RMaxOf(a, b) == IF RGt(b, a) THEN b ELSE a

\* the literals 0.01, 0.02, 0.5 and 0.25 of the function
OnePercent == RNorm(1, 100)
DefaultStop == RNorm(1, 50)
DefaultWinRate == RNorm(1, 2)
KellyCap == RNorm(1, 4)

one_percent_risk(account_value) == RMul(account_value, OnePercent)

risk_per_share(td) == RMul(td["price"], Get(td, "stop_loss_pct", DefaultStop))

\* int(one_percent_risk / risk_per_share) if risk_per_share > 0 else 0
max_shares(account_value, td) ==
    IF RGt(risk_per_share(td), RZero)
    THEN int(RDiv(one_percent_risk(account_value), risk_per_share(td)))
    ELSE 0

\* (win_rate * avg_win - (1 - win_rate) * abs(avg_loss)) / avg_win, avg_win # 0
kelly_quotient(td) ==
    LET wr == Get(td, "win_rate", DefaultWinRate)
        aw == Get(td, "avg_win", RZero)
        al == Get(td, "avg_loss", RZero)
    IN  RDiv(RSub(RMul(wr, aw), RMul(RSub(R(1), wr), RAbs(al))), aw)

\* max(0, min(kelly_pct, 0.25))
clamp(k) == RMaxOf(RZero, RMinOf(k, KellyCap))

\* the test of line 179 and the two branches.  With avg_win = 0 the quotient
\* of line 180 is -inf or nan when the operands are numpy.float64 (what
\* calculate_metrics' means are), and line 181 turns either into 0.
kelly_pct(td) ==
    IF ~RIsZero(Get(td, "avg_loss", RZero))
    THEN IF RIsZero(Get(td, "avg_win", RZero)) THEN RZero ELSE clamp(kelly_quotient(td))
    ELSE RZero

\* line 180 divides Python floats by a zero avg_win: ZeroDivisionError
KellyRaises(td, float64) ==
    /\ ~RIsZero(Get(td, "avg_loss", RZero))
    /\ RIsZero(Get(td, "avg_win", RZero))
    /\ ~float64

\* line 189 divides by trade_data['price']: ZeroDivisionError for Python
\* floats; for numpy.float64 the quotient is inf or nan and int() raises
SizeRaises(td) == RIsZero(td["price"])

Raised == [raised |-> TRUE]

\* calculate_risk_metrics(account_value, trade_data): the dict returned, or
\* that the call raised
calculate_risk_metrics(account_value, td, float64) ==
    IF KellyRaises(td, float64) \/ SizeRaises(td) THEN Raised
    ELSE [raised |-> FALSE,
          one_percent_risk |-> one_percent_risk(account_value),
          max_shares_1pct |-> max_shares(account_value, td),
          kelly_percentage |-> kelly_pct(td),
          recommended_position_size |->
              LET size == int(RDiv(RMul(account_value, kelly_pct(td)), td["price"]))
              IN  IF size < max_shares(account_value, td) THEN size
                  ELSE max_shares(account_value, td)]

InitRisk ==
    /\ \E a \in AccountValues, p \in Prices, K \in SUBSET OptionalKeys, f \in BOOLEAN :
       \E d \in [OptionalKeys -> UNION {Choices(k) : k \in OptionalKeys}] :
            /\ \A k \in OptionalKeys : d[k] \in Choices(k)
            /\ risk_in = [account_value |-> a, float64 |-> f,
                          trade_data |-> [k \in K \cup {"price"} |->
                                              IF k = "price" THEN p ELSE d[k]]]
    /\ risk_out = NoDict
    /\ pc = "call"
    /\ trades_df = <<>>
    /\ argsort = <<>>
    /\ df = <<>>
    /\ tickers = <<>>
    /\ ticker_trades = <<>>
    /\ position = RZero
    /\ total_cost = RZero
    /\ realized_pnl = RZero
    /\ steps = <<>>
    /\ raised = FALSE
    /\ again = NoCall
    /\ MetricsIdle
    /\ LedgerIdle
    /\ AppIdle

RiskMetrics ==
    /\ pc = "call"
    /\ risk_out' = calculate_risk_metrics(risk_in.account_value, risk_in.trade_data,
                                          risk_in.float64)
    /\ pc' = "returned"
    /\ UNCHANGED <<trades_df, df, tickers, ticker_trades, position, total_cost,
                   realized_pnl, argsort, steps, raised, again, risk_in>>
    /\ UNCHANGED <<metrics_vars, ledger_vars, app_vars>>

NextRisk == RiskMetrics

SpecRisk == InitRisk /\ [][NextRisk]_vars

\* ---------------------------------------------- reading the risk metrics
Returned == pc = "returned"
NonNegative(a) == ~RGt(RZero, a)

\* floor(a / b) for a >= 0, b > 0: the integer q with q * b <= a < (q + 1) * b
IsFloorOf(q, a, b) == ~RGt(RMul(R(q), b), a) /\ RGt(RMul(R(q + 1), b), a)

StopOf(td) == IF "stop_loss_pct" \in DOMAIN td THEN td["stop_loss_pct"] ELSE RNorm(2, 100)

\* C17: for account_value >= 0, price >= 0 and a stop loss fraction >= 0 the
\* call returns one_percent_risk = account_value * 0.01 and the units at risk
\* floor(one_percent_risk / (price * stop)), 0 when price * stop <= 0, without
\* raising; account value 10000, stop 0.02, price 50 gives 100.
C17_UnitsAtRisk ==
    LET a == risk_in.account_value
        td == risk_in.trade_data
        rpu == RMul(td["price"], StopOf(td))
    IN  (Returned /\ NonNegative(a) /\ NonNegative(td["price"]) /\ NonNegative(StopOf(td))) =>
            /\ ~risk_out.raised
            /\ RMul(risk_out.one_percent_risk, R(100)) = a
            /\ RGt(rpu, RZero) =>
                    IsFloorOf(risk_out.max_shares_1pct, risk_out.one_percent_risk, rpu)
            /\ ~RGt(rpu, RZero) => risk_out.max_shares_1pct = 0
            /\ (a = R(10000) /\ td["price"] = R(50) /\ StopOf(td) = RNorm(1, 50)) =>
                    risk_out.max_shares_1pct = 100

\* the Kelly fraction of the inputs before clamping, avg_win # 0
KellyOf(td) ==
    LET wr == IF "win_rate" \in DOMAIN td THEN td["win_rate"] ELSE RNorm(1, 2)
        aw == td["avg_win"]
        al == IF "avg_loss" \in DOMAIN td THEN td["avg_loss"] ELSE RZero
    IN  RNorm(wr[1] * aw[1] * al[2] * aw[2] - (wr[2] - wr[1]) * Abs(al[1]) * aw[2] * aw[2],
              wr[2] * aw[2] * al[2] * aw[1])

InUnitQuarter(k) == ~RGt(RZero, k) /\ ~RGt(k, RNorm(1, 4))

\* C18: the Kelly fraction is (win_rate * avg_win - (1 - win_rate) * |avg_loss|)
\* / avg_win clamped to [0, 0.25] whenever avg_win # 0, and 0 without raising
\* when avg_win = 0; it is always within [0, 0.25].  (Stated for price > 0.)
C18_KellyFraction ==
    LET td == risk_in.trade_data
        aw == IF "avg_win" \in DOMAIN td THEN td["avg_win"] ELSE RZero
    IN  (Returned /\ RGt(td["price"], RZero)) =>
            /\ ~risk_out.raised
            /\ InUnitQuarter(risk_out.kelly_percentage)
            /\ RIsZero(aw) => risk_out.kelly_percentage = RZero
            /\ ~RIsZero(aw) =>
                    risk_out.kelly_percentage =
                        (IF RGt(RZero, KellyOf(td)) THEN RZero
                         ELSE IF RGt(KellyOf(td), RNorm(1, 4)) THEN RNorm(1, 4)
                         ELSE KellyOf(td))

\* ======================================================================
\* DatabaseManager (src/data.py): the trades table of one database
\* ======================================================================

\* ids the table can hold; the rowid SQLite gives a new row is max(id) + 1
MaxId == 2
Ids == 1..MaxId

\* ticker.endswith('.HK')
EndsWithHK(ticker) == ticker \in {"0700.HK"}

\* trade_data dicts handed to add_trade: with and without 'fees', with a
\* 'currency' as the entry forms supply it, one with a negative price and a
\* zero quantity, and one without 'price'
AddInputs ==
    {[ticker |-> "AAPL", trade_type |-> "Buy", price |-> R(1), quantity |-> R(2)],
     [ticker |-> "AAPL", trade_type |-> "Buy", price |-> R(1), quantity |-> R(2), fees |-> R(1),
      currency |-> "EUR"],
     [ticker |-> "0700.HK", trade_type |-> "Sell", price |-> R(3), quantity |-> R(1), fees |-> R(0)],
     [ticker |-> "AAPL", trade_type |-> "Sell", price |-> R(-1), quantity |-> R(0), fees |-> R(0)],
     [ticker |-> "AAPL", trade_type |-> "Buy", quantity |-> R(2)]}

\* trade_data dicts handed to update_trade; 'shares' is no attribute of Trade
UpdateInputs ==
    {[price |-> R(3)], [total_cost |-> R(99)], [shares |-> R(7)],
     [realized_pnl |-> R(5), unrealized_pnl |-> R(5)]}
        \cup {[id |-> i] : i \in Ids}

\* float('nan'), what pandas reads from a blank cell, and None.  sqlite3 binds
\* a nan as NULL, so a nan that is stored is read back as None.
NaN == <<0, 0>>
None == <<>>
IsNumber(x) == x # None /\ x # NaN
Stored(x) == IF x = NaN THEN None ELSE x

\* (price * quantity) + fees: nan as soon as an operand is nan
TotalCost(price, quantity, fees) ==
    IF IsNumber(price) /\ IsNumber(quantity) /\ IsNumber(fees)
    THEN RAdd(RMul(price, quantity), fees)
    ELSE NaN

IdsOf(table) == {t.id : t \in table}

\* the id an INSERT without id gets: 1 in an empty table, else max(id) + 1
NextId(table) ==
    IF table = {} THEN 1
    ELSE (CHOOSE i \in IdsOf(table) : \A j \in IdsOf(table) : j <= i) + 1

\* the Trade object add_trade builds (lines 72-95) with the id of the INSERT
NewTrade(table, td) ==
    LET fees == Get(td, "fees", RZero)
    IN  [id |-> NextId(table), ticker |-> td.ticker, trade_type |-> td.trade_type,
         price |-> td.price, quantity |-> td.quantity, fees |-> Stored(fees),
         total_cost |-> Stored(TotalCost(td.price, td.quantity, fees)),
         realized_pnl |-> RZero, unrealized_pnl |-> RZero,
         currency |-> IF EndsWithHK(td.ticker) THEN "HKD" ELSE "USD",
         market |-> IF EndsWithHK(td.ticker) THEN "HK" ELSE "US"]

\* trade_data['price'] and the like raise KeyError when the key is absent; the
\* INSERT raises IntegrityError when price or quantity (nullable=False) is NULL
AddRaises(td) ==
    \/ ~({"ticker", "trade_type", "price", "quantity"} \subseteq DOMAIN td)
    \/ ~IsNumber(td.price)
    \/ ~IsNumber(td.quantity)

\* for key, value in trade_data.items(): if hasattr(trade, key): setattr(...)
SetAttrs(trade, td) ==
    [c \in DOMAIN trade |-> IF c \in DOMAIN td THEN td[c] ELSE trade[c]]

\* trade.total_cost = (trade.price * trade.quantity) + trade.fees
Recalculate(trade) ==
    [trade EXCEPT !.total_cost = TotalCost(trade.price, trade.quantity, trade.fees)]

\* the row update_trade commits for the trade found
Updated(trade, td) == Recalculate(SetAttrs(trade, td))

\* line 158 raises TypeError when an operand is None; the commit fails when
\* the new id is the id of another row (primary key)
UpdateRaises(table, trade, td) ==
    \/ \E c \in {"price", "quantity", "fees"} : SetAttrs(trade, td)[c] = None
    \/ \E other \in table \ {trade} : other.id = Updated(trade, td).id

\* ---------------------------------------------------------- CSV import
\* the cells of the numeric columns as text, and float() of what read_csv
\* makes of them: a blank cell is read as nan, and float(nan) is nan
IsFloat(cell) == cell \in {"1", "2", "3", "0", "", "-2"}
float(cell) ==
    CASE cell = "" -> NaN
      [] cell = "-2" -> R(-2)
      [] cell = "0" -> R(0)
      [] cell = "1" -> R(1)
      [] cell = "2" -> R(2)
      [] cell = "3" -> R(3)

\* rows of a CSV file with the columns ticker, trade_type, price, quantity,
\* fees; the second has a price that is no number, the third a blank fees
\* cell, the fourth a negative quantity
CsvRows ==
    {[ticker |-> "AAPL", trade_type |-> "Buy", price |-> "1", quantity |-> "2", fees |-> "1"],
     [ticker |-> "AAPL", trade_type |-> "Buy", price |-> "abc", quantity |-> "2", fees |-> "0"],
     [ticker |-> "AAPL", trade_type |-> "Buy", price |-> "1", quantity |-> "2", fees |-> ""],
     [ticker |-> "AAPL", trade_type |-> "Buy", price |-> "1", quantity |-> "-2", fees |-> "0"]}

MaxCsvRows == 2
CsvFiles == UNION {[1..n -> CsvRows] : n \in 1..MaxCsvRows}

\* float(row['price']) and the like raise ValueError on a cell that is no number
RowRaises(row) == ~(IsFloat(row.price) /\ IsFloat(row.quantity) /\ IsFloat(row.fees))

\* the trade_data dict built from a row (lines 256-270)
RowData(row) ==
    [ticker |-> row.ticker, trade_type |-> row.trade_type, price |-> float(row.price),
     quantity |-> float(row.quantity), fees |-> float(row.fees)]

\* the loop over the rows: the table and the (successful, failed) counts.
\* fails[i]: the commit of the i-th remaining row meets a storage error, which
\* add_trade re-raises and the loop counts as a failed row like any other
RECURSIVE ImportRows(_, _, _, _, _)
ImportRows(table, rows, fails, successful, failed) ==
    IF rows = <<>> THEN [table |-> table, successful |-> successful, failed |-> failed]
    ELSE IF RowRaises(Head(rows)) \/ AddRaises(RowData(Head(rows))) \/ Head(fails)
         THEN ImportRows(table, Tail(rows), Tail(fails), successful, failed + 1)
         ELSE ImportRows(table \cup {NewTrade(table, RowData(Head(rows)))}, Tail(rows),
                         Tail(fails), successful + 1, failed)

\* the table after the rollback of a failed write, instead of the attempted one
Rollback_Partial(before, attempted) == attempted

\* except: session.rollback(); raise e
Rollback(before, attempted) == before

\* ------------------------------------------------------------- the calls
InitLedger ==
    /\ ledger = {}
    /\ last_op = [op |-> "none"]
    /\ pc = "ledger"
    /\ trades_df = <<>>
    /\ argsort = <<>>
    /\ df = <<>>
    /\ tickers = <<>>
    /\ ticker_trades = <<>>
    /\ position = RZero
    /\ total_cost = RZero
    /\ realized_pnl = RZero
    /\ steps = <<>>
    /\ raised = FALSE
    /\ again = NoCall
    /\ MetricsIdle
    /\ RiskIdle
    /\ AppIdle

\* what every call of DatabaseManager leaves alone
LedgerFrame ==
    /\ UNCHANGED <<trades_df, df, pc, tickers, ticker_trades, position, total_cost,
                   realized_pnl, argsort, steps, raised, again>>
    /\ UNCHANGED <<metrics_vars, risk_vars, app_vars>>

\* add_trade(trade_data): the new row's id is returned; an exception (a
\* missing key, a constraint, a storage error at the commit) is re-raised
\* after the rollback
AddTrade ==
    /\ pc = "ledger"
    /\ \E td \in AddInputs, storage \in BOOLEAN :
        IF AddRaises(td)
        THEN /\ ~storage
             /\ ledger' = Rollback(ledger, ledger)
             /\ last_op' = [op |-> "add_trade", before |-> ledger, data |-> td,
                            storage |-> FALSE, raised |-> TRUE, result |-> 0]
        ELSE /\ NextId(ledger) <= MaxId
             /\ ledger' = IF storage
                           THEN Rollback(ledger, ledger \cup {NewTrade(ledger, td)})
                           ELSE ledger \cup {NewTrade(ledger, td)}
             /\ last_op' = [op |-> "add_trade", before |-> ledger, data |-> td,
                            storage |-> storage, raised |-> storage,
                            result |-> IF storage THEN 0 ELSE NextId(ledger)]
    /\ LedgerFrame

\* update_trade(trade_id, trade_data): False when there is no such trade
UpdateTrade ==
    /\ pc = "ledger"
    /\ \E trade_id \in Ids, td \in UpdateInputs, storage \in BOOLEAN :
        IF \E t \in ledger : t.id = trade_id
        THEN LET trade == CHOOSE t \in ledger : t.id = trade_id
                 attempted == (ledger \ {trade}) \cup {Updated(trade, td)}
             IN  IF UpdateRaises(ledger, trade, td) \/ storage
                 THEN /\ ledger' = Rollback(ledger, attempted)
                      /\ last_op' = [op |-> "update_trade", before |-> ledger,
                                     trade_id |-> trade_id, data |-> td,
                                     storage |-> storage, raised |-> TRUE,
                                     result |-> FALSE]
                 ELSE /\ ledger' = attempted
                      /\ last_op' = [op |-> "update_trade", before |-> ledger,
                                     trade_id |-> trade_id, data |-> td,
                                     storage |-> FALSE, raised |-> FALSE,
                                     result |-> TRUE]
        ELSE /\ ~storage
             /\ ledger' = ledger
             /\ last_op' = [op |-> "update_trade", before |-> ledger,
                            trade_id |-> trade_id, data |-> td,
                            storage |-> FALSE, raised |-> FALSE, result |-> FALSE]
    /\ LedgerFrame

\* delete_trade(trade_id): False when there is no such trade
DeleteTrade ==
    /\ pc = "ledger"
    /\ \E trade_id \in Ids, storage \in BOOLEAN :
        LET found == \E t \in ledger : t.id = trade_id
            attempted == {t \in ledger : t.id # trade_id}
        IN  /\ storage => found
            /\ ledger' = IF storage THEN Rollback(ledger, attempted) ELSE attempted
            /\ last_op' = [op |-> "delete_trade", before |-> ledger, trade_id |-> trade_id,
                           storage |-> storage, raised |-> storage,
                           result |-> (found /\ ~storage)]
    /\ LedgerFrame

\* reset_database(): every row is deleted; nothing is returned
ResetDatabase ==
    /\ pc = "ledger"
    /\ \E storage \in BOOLEAN :
        /\ ledger' = IF storage THEN Rollback(ledger, {}) ELSE {}
        /\ last_op' = [op |-> "reset_database", before |-> ledger, storage |-> storage,
                       raised |-> storage]
    /\ LedgerFrame

\* import_from_csv(filepath): (successful, failed); (0, 0) when the file
\* cannot be read
ImportCsv ==
    /\ pc = "ledger"
    /\ \/ \E rows \in CsvFiles : \E fails \in [1..Len(rows) -> BOOLEAN] :
            LET res == ImportRows(ledger, rows, fails, 0, 0)
            IN  /\ NextId(ledger) + Len(rows) - 1 <= MaxId
                /\ ledger' = res.table
                /\ last_op' = [op |-> "import_from_csv", before |-> ledger, rows |-> rows,
                               fails |-> fails, storage |-> FALSE, raised |-> FALSE,
                               result |-> <<res.successful, res.failed>>]
       \/ /\ ledger' = ledger
          /\ last_op' = [op |-> "import_from_csv", before |-> ledger, rows |-> <<>>,
                         fails |-> <<>>, storage |-> FALSE, raised |-> FALSE,
                         result |-> <<0, 0>>]
    /\ LedgerFrame

NextLedger ==
    \/ AddTrade
    \/ UpdateTrade
    \/ DeleteTrade
    \/ ResetDatabase
    \/ ImportCsv

SpecLedger == InitLedger /\ [][NextLedger]_vars

\* ---------------------------------------------------- reading the ledger
\* the last call was an update_trade that found its trade and committed
UpdateDone == last_op.op = "update_trade" /\ last_op.result /\ ~last_op.raised

\* such an update carried a 'total_cost' entry
SuppliedTotalCost == UpdateDone /\ "total_cost" \in DOMAIN last_op.data

\* C19: after any sequence of add_trade, update_trade, delete_trade and
\* import_from_csv calls every trade of the ledger has total_cost = price *
\* quantity + fees; a total_cost handed to update_trade does not stay in place.
C19_TotalCostDerived ==
    /\ \A t \in ledger :
            /\ IsNumber(t.fees)
            /\ IsNumber(t.total_cost)
            /\ t.total_cost = RAdd(RMul(t.price, t.quantity), t.fees)
    /\ SuppliedTotalCost =>
            \A t \in ledger :
                (t.id = last_op.trade_id /\ t.total_cost = last_op.data.total_cost) =>
                    last_op.data.total_cost = RAdd(RMul(t.price, t.quantity), t.fees)

\* C20: the ids of the ledger are unique, add_trade returns an id no trade of
\* the ledger had, and no update_trade, whatever it carries, changes the id
\* of a trade.
C20_IdsUniqueImmutable ==
    /\ \A t, u \in ledger : t.id = u.id => t = u
    /\ (last_op.op = "add_trade" /\ ~last_op.raised) =>
            last_op.result \notin IdsOf(last_op.before)
    /\ last_op.op = "update_trade" => IdsOf(ledger) = IdsOf(last_op.before)

\* ======================================================================
\* further claims on the replay, the metrics and the ledger
\* ======================================================================

\* C27: in every state the replay of one instrument's buys and sells reaches
\* (oversells included) the open quantity is >= 0, and the open cost basis is
\* 0 whenever the open quantity is 0.
C27_PositionNeverNegative ==
    \A k \in 1..Len(steps) :
        /\ ~RGt(RZero, steps[k].after.position)
        /\ RIsZero(steps[k].after.position) => RIsZero(steps[k].after.total_cost)

\* C28: for every non-empty trade set get_trade_stats and calculate_metrics,
\* given the same rows in the same order, return the same total_trades,
\* total_pnl, win_rate, avg_win, avg_loss and max_drawdown.
C28_StatisticsAgree ==
    (pc = "compared" /\ df # <<>> /\ stats # NoDict) =>
        \A k \in {"total_trades", "total_pnl", "win_rate", "avg_win", "avg_loss",
                  "max_drawdown"} : stats[k] = metrics[k]

\* the last call was an add_trade that stored a trade, and that trade
AddDone == last_op.op = "add_trade" /\ ~last_op.raised
Added_Trade == CHOOSE t \in ledger : t.id = last_op.result

\* C21: no ledger operation of the user changes realized_pnl or
\* unrealized_pnl: add_trade creates the trade with both at 0, and an
\* update_trade carrying these fields leaves the stored values as they were.
C21_PnlNotUserEditable ==
    /\ AddDone =>
            /\ Added_Trade.realized_pnl = RZero
            /\ Added_Trade.unrealized_pnl = RZero
    /\ (last_op.op = "update_trade" /\ "id" \notin DOMAIN last_op.data) =>
            \A t \in last_op.before : \A u \in ledger :
                t.id = u.id =>
                    /\ u.realized_pnl = t.realized_pnl
                    /\ u.unrealized_pnl = t.unrealized_pnl

\* C22: add_trade stores the currency of the trade data when there is one,
\* and HKD for a '.HK' ticker, USD otherwise, only when there is none.
C22_SuppliedCurrencyStored ==
    AddDone =>
        Added_Trade.currency =
            (IF "currency" \in DOMAIN last_op.data THEN last_op.data.currency
             ELSE IF last_op.data.ticker \in {"0700.HK"} THEN "HKD" ELSE "USD")

\* the last call was an import_from_csv that read its file
ImportDone == last_op.op = "import_from_csv" /\ last_op.rows # <<>>

\* a row whose price or quantity is no number or is negative
Malformed(row) ==
    \/ row.price \notin {"0", "1", "2", "3"}
    \/ row.quantity \notin {"0", "1", "2", "3"}

\* C23: import_from_csv skips a malformed row (a negative quantity or price
\* included) and counts it as failed, the two counts add up to the number of
\* rows, and the ledger grows by the number of succeeded rows.
C23_PartialSuccess ==
    ImportDone =>
        /\ last_op.result[1] + last_op.result[2] = Len(last_op.rows)
        /\ Cardinality(ledger) = Cardinality(last_op.before) + last_op.result[1]
        /\ last_op.result[2] >=
                Cardinality({i \in 1..Len(last_op.rows) : Malformed(last_op.rows[i])})

\* C24: no trade with a negative price, a negative or zero quantity, or
\* without instrument or side is in the ledger, whichever call added it.
C24_OnlyValidTrades ==
    \A t \in ledger :
        /\ ~RGt(RZero, t.price)
        /\ RGt(t.quantity, RZero)
        /\ t.ticker # ""
        /\ t.trade_type \in TradeTypes

\* the last write met a storage error / named an id the ledger did not hold
StorageError == last_op.op # "none" /\ last_op.storage
NoSuchTrade ==
    /\ last_op.op \in {"update_trade", "delete_trade"}
    /\ last_op.trade_id \notin IdsOf(last_op.before)

Users == {"alice", "root"}
getuser == "root"

\* f"trades_{username}.db"
get_user_database(username) ==
    CASE username = "alice" -> "trades_alice.db"
      [] username = "root" -> "trades_root.db"

\* the files of the working directory that hold trades; 'trades.db' is the
\* name create_backup_zip gives the database inside the archive.  A file not
\* created yet holds no trades.
FileNames == {get_user_database(u) : u \in Users} \cup {"trades.db"}

\* rows a table may hold in this specification
MaxRows == 3

\* get_trades(): the rows of the table as the rows of a DataFrame (the model
\* carries no date, so no order)
get_trades(table) == {[c \in DOMAIN t |-> t[c]] : t \in table}

\* session_state after the logout button
LoggedOut == [username |-> "", db_path |-> "", trades_df |-> {}, action |-> "logout",
              message |-> ""]

NoBackup == [taken |-> FALSE, username |-> "", trades |-> {}]

\* what the stock form can submit: price and quantity are >= 0 (min_value)
FormInputs ==
    {[ticker |-> "AAPL", trade_type |-> "Buy", price |-> R(1), quantity |-> R(2),
      fees |-> R(0), currency |-> "EUR"],
     [ticker |-> "AAPL", trade_type |-> "Buy", price |-> R(1), quantity |-> R(0),
      fees |-> R(0), currency |-> "USD"],
     [ticker |-> "", trade_type |-> "Sell", price |-> R(1), quantity |-> R(2),
      fees |-> R(0), currency |-> "USD"]}

\* if ticker and price > 0 and quantity > 0
FormValid(form) ==
    form.ticker # "" /\ RGt(form.price, RZero) /\ RGt(form.quantity, RZero)

\* the CSV files uploaded in this specification: one good row, or one row
\* whose price is no number
UploadedCsv ==
    {<<[ticker |-> "AAPL", trade_type |-> "Buy", price |-> "1", quantity |-> "2", fees |-> "0"]>>,
     <<[ticker |-> "AAPL", trade_type |-> "Buy", price |-> "abc", quantity |-> "2", fees |-> "0"]>>}

\* the three trades of create_sample_data
sample_trades ==
    <<[ticker |-> "NVDA", trade_type |-> "Buy", price |-> RNorm(375, 2), quantity |-> R(10),
       fees |-> RNorm(99, 20)],
      [ticker |-> "KO", trade_type |-> "Buy", price |-> RNorm(5, 2), quantity |-> R(1),
       fees |-> RNorm(13, 20)],
      [ticker |-> "AAPL", trade_type |-> "Sell", price |-> RNorm(976, 5), quantity |-> R(5),
       fees |-> RNorm(99, 20)]>>

\* create_sample_data(): db = DatabaseManager() opens trades_{getuser()}.db,
\* whoever is logged in, and adds the three trades to it
RECURSIVE AddAll(_, _)
AddAll(table, tds) ==
    IF tds = <<>> THEN table
    ELSE AddAll(table \cup {NewTrade(table, Head(tds))}, Tail(tds))

create_sample_data(fs) ==
    [fs EXCEPT ![get_user_database(getuser)] = AddAll(@, sample_trades)]

InitApp ==
    /\ files = [f \in FileNames |-> {}]
    /\ session = LoggedOut
    /\ backup = NoBackup
    /\ pc = "app"
    /\ trades_df = <<>>
    /\ argsort = <<>>
    /\ df = <<>>
    /\ tickers = <<>>
    /\ ticker_trades = <<>>
    /\ position = RZero
    /\ total_cost = RZero
    /\ realized_pnl = RZero
    /\ steps = <<>>
    /\ raised = FALSE
    /\ again = NoCall
    /\ MetricsIdle
    /\ RiskIdle
    /\ LedgerIdle

\* what every action of the app leaves alone
AppFrame ==
    /\ UNCHANGED <<trades_df, df, pc, tickers, ticker_trades, position, total_cost,
                   realized_pnl, argsort, steps, raised, again>>
    /\ UNCHANGED <<metrics_vars, risk_vars, ledger_vars>>

LoggedIn == pc = "app" /\ session.username # ""

\* the table of the database the session holds
SessionTable == files[session.db_path]

\* login: session_state.db = DatabaseManager(get_user_database(username)),
\* trades_df = db.get_trades()
Login(username) ==
    /\ pc = "app"
    /\ session.username = ""
    /\ session' = [username |-> username, db_path |-> get_user_database(username),
                   trades_df |-> get_trades(files[get_user_database(username)]),
                   action |-> "login", message |-> "success"]
    /\ UNCHANGED <<files, backup>>
    /\ AppFrame

Logout ==
    /\ LoggedIn
    /\ session' = LoggedOut
    /\ UNCHANGED <<files, backup>>
    /\ AppFrame

\* the Refresh Data button
Refresh ==
    /\ LoggedIn
    /\ session' = [session EXCEPT !.trades_df = get_trades(SessionTable),
                                  !.action = "refresh", !.message = ""]
    /\ UNCHANGED <<files, backup>>
    /\ AppFrame

\* the stock form: validation, add_trade, refresh of the cache; a storage
\* error raised by add_trade is caught and reported
SubmitTrade ==
    /\ LoggedIn
    /\ \E form \in FormInputs, storage \in BOOLEAN :
        IF ~FormValid(form)
        THEN /\ ~storage
             /\ files' = files
             /\ session' = [session EXCEPT !.action = "submit", !.message = "error"]
        ELSE /\ NextId(SessionTable) <= MaxRows
             /\ IF storage
                THEN /\ files' = [files EXCEPT ![session.db_path] =
                                      Rollback(@, @ \cup {NewTrade(@, form)})]
                     /\ session' = [session EXCEPT !.action = "submit",
                                                   !.message = "error"]
                ELSE /\ files' = [files EXCEPT ![session.db_path] =
                                      @ \cup {NewTrade(@, form)}]
                     /\ session' = [session EXCEPT
                                      !.trades_df = get_trades(files'[session.db_path]),
                                      !.action = "submit", !.message = "success"]
    /\ UNCHANGED backup
    /\ AppFrame

\* the Import CSV button: import_from_csv on the session's database, refresh,
\* "Import completed!"
ImportButton ==
    /\ LoggedIn
    /\ \E rows \in UploadedCsv : \E fails \in [1..Len(rows) -> BOOLEAN] :
        LET res == ImportRows(SessionTable, rows, fails, 0, 0)
        IN  /\ NextId(SessionTable) + Len(rows) - 1 <= MaxRows
            /\ files' = [files EXCEPT ![session.db_path] = res.table]
            /\ session' = [session EXCEPT !.trades_df = get_trades(res.table),
                                          !.action = "import", !.message = "success"]
    /\ UNCHANGED backup
    /\ AppFrame

\* the Add Sample Data button: create_sample_data(), refresh from the
\* session's database, "Sample data added!"
AddSampleData ==
    /\ LoggedIn
    /\ NextId(files[get_user_database(getuser)]) + Len(sample_trades) - 1 <= MaxRows
    /\ files' = create_sample_data(files)
    /\ session' = [session EXCEPT !.trades_df = get_trades(files'[session.db_path]),
                                  !.action = "sample", !.message = "success"]
    /\ UNCHANGED backup
    /\ AppFrame

\* the Reset Database button: reset_database() returns nothing, so the
\* branch taken is the else branch ("Failed to reset database") and the cache
\* is not refreshed; a storage error escapes the handler
ResetButton ==
    /\ LoggedIn
    /\ \E storage \in BOOLEAN :
        /\ files' = [files EXCEPT ![session.db_path] =
                        IF storage THEN Rollback(@, {}) ELSE {}]
        /\ session' = [session EXCEPT !.action = "reset",
                          !.message = IF storage THEN "exception" ELSE "error"]
    /\ UNCHANGED backup
    /\ AppFrame

\* the Create Backup button: create_backup_zip(db.db_path, tmp) writes the
\* session's database into the archive under the name 'trades.db'
CreateBackup ==
    /\ LoggedIn
    /\ backup' = [taken |-> TRUE, username |-> session.username, trades |-> SessionTable]
    /\ session' = [session EXCEPT !.action = "backup", !.message = ""]
    /\ UNCHANGED files
    /\ AppFrame

\* the Restore Backup button: restore_from_zip(tmp) extracts the archive
\* into '.', which writes the file 'trades.db'; then the cache is refreshed
\* from the session's database and "Backup restored successfully!" shown.
\* An upload that is no archive makes restore_from_zip return False.
RestoreBackup ==
    /\ LoggedIn
    /\ backup.taken
    /\ \E valid \in BOOLEAN :
        IF valid
        THEN /\ files' = [files EXCEPT !["trades.db"] = backup.trades]
             /\ session' = [session EXCEPT !.trades_df = get_trades(files'[session.db_path]),
                                           !.action = "restore", !.message = "success"]
        ELSE /\ files' = files
             /\ session' = [session EXCEPT !.action = "restore", !.message = "error"]
    /\ UNCHANGED backup
    /\ AppFrame

NextApp ==
    \/ \E username \in Users : Login(username)
    \/ Logout
    \/ Refresh
    \/ SubmitTrade
    \/ ImportButton
    \/ AddSampleData
    \/ ResetButton
    \/ CreateBackup
    \/ RestoreBackup

SpecApp == InitApp /\ [][NextApp]_vars

\* ---------------------------------------------------------------------
\* claims on the app
\* ---------------------------------------------------------------------

\* the ledger of a registered user
LedgerOf(username) == files[get_user_database(username)]

\* C26: every step of a logged-in user U that changes a user's ledger
\* changes the ledger of U and of nobody else, and Add Sample Data puts its
\* trades into the ledger of U.
C26_OwnLedgerOnly ==
    [][/\ \A u \in Users :
            LedgerOf(u)' # LedgerOf(u) => session.username = u
       /\ (session'.action = "sample" /\ session.username \in Users) =>
            LedgerOf(session.username)' # LedgerOf(session.username)]_vars

\* the actions of the app that mutate a ledger
Mutating == {"submit", "import", "sample", "reset", "restore"}

\* C29: after each ledger-mutating action of the app the cached trade list
\* is the content of the session's ledger, and after a Reset Database that
\* met no storage error the cached list is empty and success is reported.
C29_CacheMatchesLedger ==
    (LoggedIn /\ session.action \in Mutating) =>
        /\ session.trades_df = get_trades(SessionTable)
        /\ (session.action = "reset" /\ session.message # "exception") =>
              (session.trades_df = {} /\ session.message = "success")

\* C30: after a user has restored the backup they took, their ledger holds
\* exactly the trades it held when the backup was taken.
C30_RestoreRoundTrip ==
    (LoggedIn /\ session.action = "restore" /\ session.message = "success"
     /\ backup.username = session.username) =>
        SessionTable = backup.trades

====
